---- MODULE Spec2Model ----
(***************************************************************************)
(* The Bingo lobby engine of backend/lobby.py and backend/main.py: request *)
(* handlers and background tasks sharing one redis store.  Every awaited   *)
(* redis command is one atomic step; a handler is a sequence of steps and  *)
(* other handlers and tasks may run between any two of them.               *)
(*                                                                         *)
(* Time is abstracted: asyncio.sleep ends at any moment, and no key        *)
(* expires (LOBBY_TTL and the 30 s lifetime of the starting token are      *)
(* longer than any run considered), so redis.expire changes nothing and is *)
(* folded into the write it follows.  asyncio.create_task is folded into   *)
(* the redis write it follows: the task's first step is a sleep or a read. *)
(* redis KEYS returns keys in no specified order; loops over player keys   *)
(* visit them in ascending player id.                                      *)
(*                                                                         *)
(* Schedules are bounded by preemptions.  A handler or task is in          *)
(* mid-flight between two of its redis commands.  A step is a preemption   *)
(* when it follows a step of another handler or task that is left in       *)
(* mid-flight, or when it wakes a task up while another handler or task is *)
(* in mid-flight; a run has at most MaxPreemptions.                        *)
(* Requests arrive during the first DrawWindow draws of a game or after    *)
(* its last draw, MaxRequests of them in a run.                            *)
(***************************************************************************)
EXTENDS Integers, Sequences, FiniteSets, TLC

\* ---- bounds of the model ----
NumClients == 2      \* concurrent request handlers
NumAliens == 2       \* player ids that requests name
MaxLobbies == 2      \* lobbies ever created
MaxRequests == 2     \* requests issued in one run
NumJoined == 2       \* players of the initial states with a forming lobby, at most
NumRandomGrids == 1  \* outcomes of _generate_random_grid
NumPools == 1        \* outcomes of random.shuffle(numbers_pool)
MaxPreemptions == 2  \* interruptions of a handler or task between two steps
DrawWindow == 3      \* requests arrive in the first draws or after the last

\* ---- constants of lobby.py ----
MAX_PLAYERS == 10
MIN_PLAYERS == 2
MAX_NUMBER == 20
BUY_IN_AMOUNT == 3500

Clients == 1..NumClients
Aliens == 1..NumAliens
LobbyIds == 1..MaxLobbies

\* the n players already in the lobby in an initial state with a lobby
Joined(n) == (NumAliens + 1)..(NumAliens + n)

\* amounts of the invoices the payment webhook is called for
InvoiceAmounts == {500}

Min(S) == CHOOSE x \in S : \A y \in S : x <= y

\* ---- values ----

\* [n for row in grid for n in row]
RECURSIVE Flatten(_)
Flatten(grid) == IF grid = <<>> THEN <<>> ELSE Head(grid) \o Flatten(Tail(grid))

SeqToSet(s) == {s[i] : i \in 1..Len(s)}

GridFrom(start) ==
    LET Cell(r, c) == ((start - 1 + 3 * (r - 1) + (c - 1)) % MAX_NUMBER) + 1
    IN  << <<Cell(1,1), Cell(1,2), Cell(1,3)>>,
           <<Cell(2,1), Cell(2,2), Cell(2,3)>>,
           <<Cell(3,1), Cell(3,2), Cell(3,3)>> >>

\* the outcomes of random.sample(range(1, MAX_NUMBER + 1), 9) considered
_generate_random_grid == {GridFrom(s) : s \in 1..NumRandomGrids}

\* grids that requests submit: valid ones, and one for each way of being invalid
SubmittedGrids ==
    { GridFrom(1),
      << <<9, 5, 1>>, <<4, 20, 6>>, <<7, 8, 2>> >>,
      << <<1, 2, 3>>, <<4, 5, 6>> >>,
      << <<1, 2, 3, 4>>, <<5, 6>>, <<7, 8, 9>> >>,
      << <<1, 2, 3>>, <<4, 5, 6>>, <<7, 8, 1>> >>,
      << <<0, 2, 3>>, <<4, 5, 6>>, <<7, 8, 9>> >>,
      << <<1, 2, 3>>, <<4, 5, 6>>, <<7, 8, 21>> >> }

\* highlighted_numbers that claims send
Highlights == { <<1, 2, 3>>, <<1, 2, 3, 4>>, <<1, 5, 9>>, <<1, 2>> }

\* the outcomes of random.shuffle(numbers_pool) considered
PoolSteps == <<1, 19, 3, 7, 9, 11, 13, 17>>
\* a pool drawn with replacement
Pool_with_repeats(i) ==
    [k \in 1..MAX_NUMBER |-> (((k - 1) * PoolSteps[i]) % (MAX_NUMBER \div 2)) + 1]

Pool(i) == [k \in 1..MAX_NUMBER |-> (((k - 1) * PoolSteps[i]) % MAX_NUMBER) + 1]
Pools == {Pool(i) : i \in 1..NumPools}

\* the hash lobby:{id} as _create_new_global_lobby writes it; 0 stands for
\* an empty or absent field, "t" for a timestamp
NewLobbyHash ==
    [status |-> "forming", pot |-> 0, winner |-> 0, forming_deadline |-> "",
     started_at |-> "", finished_at |-> "", latest_number |-> 0,
     previous_number |-> 0]

NoLobbyHash == [NewLobbyHash EXCEPT !.status = ""]

\* the hash lobby:{id}:player:{alien_id} as add_player_to_lobby writes it
NewPlayerHash ==
    [numbers |-> <<>>, grid |-> <<>>, ready |-> "false", active |-> "true"]

NoResult ==
    [res |-> "", lobby_id |-> 0, player_count |-> 0, pot |-> 0, ready_count |-> 0,
     pattern |-> ""]

Result(r) == [NoResult EXCEPT !.res = r]

\* the dict add_player_to_lobby returns
JoinResult(status, l, count, pot) ==
    [Result(status) EXCEPT !.lobby_id = l, !.player_count = count, !.pot = pot]

IdleClient ==
    [op |-> "none", pc |-> "idle", lobby_id |-> 0, alien_id |-> 0,
     grid |-> <<>>, hl |-> <<>>, lobby |-> NoLobbyHash, keys |-> {},
     todo |-> {}, called |-> {}, res |-> NoResult]

Done(r) == [IdleClient EXCEPT !.pc = "done", !.res = r]

NoTimer == [pc |-> "none", keys |-> {}, todo |-> {}, n_active |-> 0]
TimerExit == [NoTimer EXCEPT !.pc = "done"]

NoTask == [pc |-> "none", pool |-> <<>>, idx |-> 0, current_latest |-> 0]

NoHist ==
    [started_writes |-> 0, tasks |-> 0, timers |-> 0, deadline_writes |-> 0,
     credited |-> 0, new_joins |-> [a \in {} |-> 0]]

VARIABLES
    pointer,         \* the key global_lobby: a lobby id, 0 when absent
    lobby,           \* lobby id -> hash lobby:{id}, for the lobbies created
    players,         \* lobby id -> (alien id -> hash lobby:{id}:player:{alien})
    numbers_called,  \* lobby id -> list lobby:{id}:numbers_called
    starting,        \* lobby id -> whether key lobby:{id}:starting exists
    client,          \* request handler -> its request, position and locals
    timer,           \* lobby id -> client that spawned it -> forming_timer task
    calltask,        \* lobby id -> call_numbers_task
    requests,        \* requests issued so far
    hist,            \* lobby id -> what has happened to it (history only)
    sched            \* the handler or task in mid-flight that stepped last,
                     \* and the preemptions so far

vars == <<pointer, lobby, players, numbers_called, starting, client, timer,
          calltask, requests, hist, sched>>

shared == <<pointer, lobby, players, numbers_called, starting>>
tasks == <<timer, calltask>>

\* ---- redis reads ----

Exists(l) == l \in DOMAIN lobby

\* redis.keys(f"lobby:{lobby_id}:player:*")
PlayerKeys(l) == DOMAIN players[l]

\* _count_ready_players
_count_ready_players(l) ==
    Cardinality({a \in PlayerKeys(l) :
        players[l][a].ready = "true" /\ players[l][a].active = "true"})

\* ---- initial states ----

\* nothing has happened yet
InitClean ==
    /\ pointer = 0
    /\ lobby = [l \in {} |-> NewLobbyHash]
    /\ players = [l \in LobbyIds |-> [a \in {} |-> NewPlayerHash]]
    /\ numbers_called = [l \in LobbyIds |-> <<>>]
    /\ starting = [l \in LobbyIds |-> FALSE]
    /\ client = [c \in Clients |-> IdleClient]
    /\ timer = [l \in LobbyIds |-> [c \in Clients |-> NoTimer]]
    /\ calltask = [l \in LobbyIds |-> NoTask]
    /\ requests = 0
    /\ hist = [l \in LobbyIds |-> NoHist]
    /\ sched = [current |-> <<>>, preemptions |-> 0]

\* n players have joined one after the other and all but the last have then
\* submitted the grid GridFrom(1), through client 1, and nothing else has
\* happened: lobby 1 is forming and its timer sleeps
InitJoined(n) ==
    /\ pointer = 1
    /\ lobby = [l \in {1} |->
            [NewLobbyHash EXCEPT !.pot = n * BUY_IN_AMOUNT, !.forming_deadline = "t"]]
    /\ players = [l \in LobbyIds |->
            IF l = 1
            THEN [a \in Joined(n) |->
                    IF a = NumAliens + n THEN NewPlayerHash
                    ELSE [numbers |-> Flatten(GridFrom(1)), grid |-> GridFrom(1),
                          ready |-> "true", active |-> "true"]]
            ELSE [a \in {} |-> NewPlayerHash]]
    /\ numbers_called = [l \in LobbyIds |-> <<>>]
    /\ starting = [l \in LobbyIds |-> FALSE]
    /\ client = [c \in Clients |-> IdleClient]
    /\ timer = [l \in LobbyIds |-> [c \in Clients |->
            IF l = 1 /\ c = 1 THEN [NoTimer EXCEPT !.pc = "sleep"] ELSE NoTimer]]
    /\ calltask = [l \in LobbyIds |-> NoTask]
    /\ requests = 0
    /\ hist = [l \in LobbyIds |->
            IF l = 1
            THEN [NoHist EXCEPT !.timers = 1, !.deadline_writes = 1,
                                !.new_joins = [a \in Joined(n) |-> 1]]
            ELSE NoHist]
    /\ sched = [current |-> <<>>, preemptions |-> 0]

\* the players of Aliens have joined and submitted the grid GridFrom(1) one
\* after the other, through client 1, and nothing else has happened: the last
\* submission has made lobby 1 active, its forming timer has woken up, found
\* it active and returned, and call_numbers_task has not drawn yet
InitActive ==
    /\ pointer = 1
    /\ lobby = [l \in {1} |->
            [NewLobbyHash EXCEPT !.status = "active", !.started_at = "t",
                !.pot = NumAliens * BUY_IN_AMOUNT, !.forming_deadline = "t"]]
    /\ players = [l \in LobbyIds |->
            IF l = 1
            THEN [a \in Aliens |->
                    [numbers |-> Flatten(GridFrom(1)), grid |-> GridFrom(1),
                     ready |-> "true", active |-> "true"]]
            ELSE [a \in {} |-> NewPlayerHash]]
    /\ numbers_called = [l \in LobbyIds |-> <<>>]
    /\ starting = [l \in LobbyIds |-> l = 1]
    /\ client = [c \in Clients |-> IdleClient]
    /\ timer = [l \in LobbyIds |-> [c \in Clients |->
            IF l = 1 /\ c = 1 THEN TimerExit ELSE NoTimer]]
    /\ \E pool \in Pools :
        calltask = [l \in LobbyIds |->
            IF l = 1 THEN [pc |-> "get", pool |-> pool, idx |-> 1, current_latest |-> 0]
            ELSE NoTask]
    /\ requests = 0
    /\ hist = [l \in LobbyIds |->
            IF l = 1
            THEN [NoHist EXCEPT !.timers = 1, !.deadline_writes = 1,
                    !.started_writes = 1, !.tasks = 1,
                    !.new_joins = [a \in Aliens |-> 1]]
            ELSE NoHist]
    /\ sched = [current |-> <<>>, preemptions |-> 0]

Init == InitClean \/ (\E n \in 1..NumJoined : InitJoined(n)) \/ InitActive

\* ---- the schedule ----

\* a handler or task is in mid-flight between two of its redis commands: not
\* before its first one, after its last one or in asyncio.sleep
ClientBusy(c) == client[c].pc \notin {"idle", "done"}
TimerBusy(l, k) == timer[l][k].pc \notin {"none", "sleep", "done"}
TaskBusy(l) == calltask[l].pc \in {"rpush", "hset", "finish_delete"}

Procs ==
    {<<"client", c>> : c \in Clients} \cup {<<"task", l>> : l \in LobbyIds}
    \cup {<<"timer", l, k>> : l \in LobbyIds, k \in Clients}

Busy(q) ==
    IF q[1] = "client" THEN ClientBusy(q[2])
    ELSE IF q[1] = "task" THEN TaskBusy(q[2])
    ELSE TimerBusy(q[2], q[3])

\* process p takes the step; busy says whether it is then in mid-flight.  The
\* step is a preemption when it switches away from the process that stepped
\* last and is in mid-flight, or when a task wakes up while a handler or
\* another task is in mid-flight.
Sched(p, busy) ==
    LET switches == sched.current # <<>> /\ sched.current # p
        wakes == p[1] \in {"timer", "task"} /\ ~Busy(p) /\ \E q \in Procs \ {p} : Busy(q)
        preempts == switches \/ wakes
    IN
    /\ preempts => sched.preemptions < MaxPreemptions
    /\ sched' = [current |-> IF busy THEN p ELSE <<>>,
                 preemptions |-> sched.preemptions + (IF preempts THEN 1 ELSE 0)]

ClientStep(c) == Sched(<<"client", c>>, ClientBusy(c)')
TimerStep(l, k) == Sched(<<"timer", l, k>>, TimerBusy(l, k)')
TaskStep(l) == Sched(<<"task", l>>, TaskBusy(l)')
WebhookStep == Sched(<<"webhook">>, FALSE)

\* ---- the join request: main.join_lobby ----

At(c, pc) == client[c].pc = pc
\* requests arrive while at most DrawWindow numbers of a lobby are called,
\* or when all of them are
Arrivals ==
    /\ requests < MaxRequests
    /\ \A l \in LobbyIds :
        Len(numbers_called[l]) <= DrawWindow \/ Len(numbers_called[l]) >= MAX_NUMBER

CanStart(c) == client[c].pc \in {"idle", "done"} /\ Arrivals

\* redis.hincrby(key, field, amount)
hincrby(value, amount) == value + amount

\* a credit computed from the pot the handler read when it started
BuyInCredit_from_snapshot(stored_pot, snapshot_pot) == snapshot_pot + BUY_IN_AMOUNT

\* the pot after add_player_to_lobby's hincrby: redis adds to the stored
\* value, not to the pot the handler read when it started
BuyInCredit(stored_pot, snapshot_pot) == hincrby(stored_pot, BUY_IN_AMOUNT)

\* hset of a whole player hash: creates the key or overwrites its fields
HsetPlayer(l, a, hash) ==
    players' = [players EXCEPT ![l] =
        [x \in DOMAIN players[l] \cup {a} |-> IF x = a THEN hash ELSE players[l][x]]]

\* the capacity check of add_player_to_lobby
LobbyIsFull(player_keys) == Cardinality(player_keys) >= MAX_PLAYERS

\* join_lobby is called; get_or_create_global_lobby reads the pointer
join_lobby(c) ==
    /\ CanStart(c)
    /\ \E a \in Aliens :
        client' = [client EXCEPT ![c] =
            [IdleClient EXCEPT !.op = "join", !.alien_id = a, !.lobby_id = pointer,
                !.pc = IF pointer # 0 THEN "goc_hgetall" ELSE "create_hset"]]
    /\ requests' = requests + 1
    /\ UNCHANGED <<shared, tasks, hist>>
    /\ ClientStep(c)

\* get_or_create_global_lobby reads the lobby the pointer named
get_or_create_global_lobby(c) ==
    /\ At(c, "goc_hgetall")
    /\ LET l == client[c].lobby_id IN
        client' = [client EXCEPT ![c] =
            IF Exists(l) /\ lobby[l].status = "active"
            THEN Done([Result("in_progress") EXCEPT !.lobby_id = l])
            ELSE IF Exists(l) /\ lobby[l].status = "forming"
            THEN [@ EXCEPT !.pc = "add_hgetall"]
            ELSE [@ EXCEPT !.pc = "create_hset"]]
    /\ UNCHANGED <<shared, tasks, requests, hist>>
    /\ ClientStep(c)

\* _create_new_global_lobby writes the hash of a lobby with a fresh id
_create_new_global_lobby(c) ==
    /\ At(c, "create_hset")
    /\ Cardinality(DOMAIN lobby) < MaxLobbies
    /\ LET l == Cardinality(DOMAIN lobby) + 1 IN
        /\ lobby' = [x \in DOMAIN lobby \cup {l} |-> IF x = l THEN NewLobbyHash ELSE lobby[x]]
        /\ client' = [client EXCEPT ![c].lobby_id = l, ![c].pc = "create_set"]
    /\ UNCHANGED <<pointer, players, numbers_called, starting, tasks, requests, hist>>
    /\ ClientStep(c)

\* _create_new_global_lobby sets the pointer
create_set_pointer(c) ==
    /\ At(c, "create_set")
    /\ pointer' = client[c].lobby_id
    /\ client' = [client EXCEPT ![c].pc = "add_hgetall"]
    /\ UNCHANGED <<lobby, players, numbers_called, starting, tasks, requests, hist>>
    /\ ClientStep(c)

\* add_player_to_lobby reads the lobby
add_player_to_lobby(c) ==
    /\ At(c, "add_hgetall")
    /\ LET l == client[c].lobby_id IN
        client' = [client EXCEPT ![c] =
            IF ~Exists(l) THEN Done(Result("Lobby not found"))
            ELSE IF lobby[l].status # "forming"
            THEN Done(Result("Lobby is no longer accepting players"))
            ELSE [@ EXCEPT !.lobby = lobby[l], !.pc = "add_exists"]]
    /\ UNCHANGED <<shared, tasks, requests, hist>>
    /\ ClientStep(c)

\* add_player_to_lobby asks whether the player has a record
add_exists(c) ==
    /\ At(c, "add_exists")
    /\ client' = [client EXCEPT ![c].pc =
            IF client[c].alien_id \in PlayerKeys(client[c].lobby_id)
            THEN "add_rejoin" ELSE "add_keys"]
    /\ UNCHANGED <<shared, tasks, requests, hist>>
    /\ ClientStep(c)

\* add_player_to_lobby answers a player that has a record
add_rejoin(c) ==
    /\ At(c, "add_rejoin")
    /\ LET l == client[c].lobby_id IN
        client' = [client EXCEPT ![c] =
            Done(JoinResult(client[c].lobby.status, l, Cardinality(PlayerKeys(l)),
                            client[c].lobby.pot))]
    /\ UNCHANGED <<shared, tasks, requests, hist>>
    /\ ClientStep(c)

\* add_player_to_lobby counts the players
add_keys(c) ==
    /\ At(c, "add_keys")
    /\ LET player_keys == PlayerKeys(client[c].lobby_id) IN
        client' = [client EXCEPT ![c] =
            IF LobbyIsFull(player_keys) THEN Done(Result("Lobby is full"))
            ELSE [@ EXCEPT !.keys = player_keys, !.pc = "add_hset"]]
    /\ UNCHANGED <<shared, tasks, requests, hist>>
    /\ ClientStep(c)

\* add_player_to_lobby writes the player's record
add_hset(c) ==
    /\ At(c, "add_hset")
    /\ LET l == client[c].lobby_id
           a == client[c].alien_id
           n == IF a \in DOMAIN hist[l].new_joins THEN hist[l].new_joins[a] ELSE 0
       IN
        /\ HsetPlayer(l, a, NewPlayerHash)
        /\ hist' = [hist EXCEPT ![l].new_joins =
                [x \in DOMAIN @ \cup {a} |-> IF x = a THEN n + 1 ELSE @[x]]]
    /\ client' = [client EXCEPT ![c].pc = "add_hincrby"]
    /\ UNCHANGED <<pointer, lobby, numbers_called, starting, tasks, requests>>
    /\ ClientStep(c)

\* add_player_to_lobby credits the buy-in
add_hincrby(c) ==
    /\ At(c, "add_hincrby")
    /\ LET l == client[c].lobby_id IN
        /\ lobby' = [lobby EXCEPT ![l].pot = BuyInCredit(@, client[c].lobby.pot)]
        /\ client' = [client EXCEPT ![c] =
            IF client[c].lobby.forming_deadline # ""
            THEN Done(JoinResult(client[c].lobby.status, l, Cardinality(client[c].keys) + 1,
                                 client[c].lobby.pot + BUY_IN_AMOUNT))
            ELSE [@ EXCEPT !.pc = "add_deadline"]]
    /\ UNCHANGED <<pointer, players, numbers_called, starting, tasks, requests, hist>>
    /\ ClientStep(c)

\* add_player_to_lobby sets the deadline and starts the forming timer
add_deadline(c) ==
    /\ At(c, "add_deadline")
    /\ LET l == client[c].lobby_id IN
        /\ lobby' = [lobby EXCEPT ![l].forming_deadline = "t"]
        /\ timer' = [timer EXCEPT ![l][c] = [NoTimer EXCEPT !.pc = "sleep"]]
        /\ hist' = [hist EXCEPT ![l].deadline_writes = @ + 1, ![l].timers = @ + 1]
        /\ client' = [client EXCEPT ![c] =
            Done(JoinResult(client[c].lobby.status, l, Cardinality(client[c].keys) + 1,
                            client[c].lobby.pot + BUY_IN_AMOUNT))]
    /\ UNCHANGED <<pointer, players, numbers_called, starting, calltask, requests>>
    /\ ClientStep(c)

Join(c) ==
    \/ join_lobby(c)
    \/ get_or_create_global_lobby(c)
    \/ _create_new_global_lobby(c)
    \/ create_set_pointer(c)
    \/ add_player_to_lobby(c)
    \/ add_exists(c)
    \/ add_rejoin(c)
    \/ add_keys(c)
    \/ add_hset(c)
    \/ add_hincrby(c)
    \/ add_deadline(c)

\* ---- start_game and finish_game, called by requests and by tasks ----

\* a start_game that takes the token whether or not it is held
LockAcquired_always(l) == TRUE

\* a start_game that never gets the token
LockAcquired_never(l) == FALSE

\* redis.set(f"lobby:{lobby_id}:starting", "1", nx=True, ex=30) returned true
LockAcquired(l) == ~starting[l]

\* start_game writes the transition and starts call_numbers_task
StartHset(l) ==
    /\ lobby' = [lobby EXCEPT ![l].status = "active", ![l].started_at = "t"]
    /\ \E pool \in Pools :
        calltask' = [calltask EXCEPT ![l] =
            [pc |-> "get", pool |-> pool, idx |-> 1, current_latest |-> 0]]
    /\ hist' = [hist EXCEPT ![l].started_writes = @ + 1, ![l].tasks = @ + 1]

\* finish_game writes status, winner and finished_at
FinishHset(l, winner) ==
    lobby' = [lobby EXCEPT ![l].status = "finished", ![l].winner = winner,
                           ![l].finished_at = "t"]

\* finish_game deletes the pointer
FinishDelete == pointer' = 0

\* ---- the grid request: submit_grid ----

GridIs3x3(grid) == Len(grid) = 3 /\ \A i \in 1..Len(grid) : Len(grid[i]) = 3

\* a validation without the range check
GridError_no_range(grid) ==
    LET flat == Flatten(grid) IN
    IF ~GridIs3x3(grid) THEN "Grid must be 3x3"
    ELSE IF Cardinality(SeqToSet(flat)) # 9 THEN "Grid must contain 9 unique numbers"
    ELSE ""

\* the validation of submit_grid: the error it raises, "" when it raises none
GridError(grid) ==
    LET flat == Flatten(grid) IN
    IF ~GridIs3x3(grid) THEN "Grid must be 3x3"
    ELSE IF Cardinality(SeqToSet(flat)) # 9 THEN "Grid must contain 9 unique numbers"
    ELSE IF ~(\A i \in 1..Len(flat) : 1 <= flat[i] /\ flat[i] <= MAX_NUMBER)
    THEN "Numbers must be between 1 and 20"
    ELSE ""

\* hset of numbers, grid and ready on a player hash
HsetGrid(l, a, grid) ==
    players' = [players EXCEPT ![l][a].numbers = Flatten(grid), ![l][a].grid = grid,
                               ![l][a].ready = "true"]

\* the next key of a loop over player keys, and the keys left after it
Cur(todo) == Min(todo)
Rest(todo) == todo \ {Cur(todo)}

\* submit_grid is called and reads the lobby
submit_grid(c) ==
    /\ CanStart(c)
    /\ \E l \in LobbyIds, a \in Aliens, grid \in SubmittedGrids :
        client' = [client EXCEPT ![c] =
            IF ~Exists(l) THEN Done(Result("Lobby not found"))
            ELSE IF lobby[l].status # "forming"
            THEN Done(Result("Cannot submit grid in current game state"))
            ELSE [IdleClient EXCEPT !.op = "submit", !.lobby_id = l, !.alien_id = a,
                                    !.grid = grid, !.pc = "sub_player"]]
    /\ requests' = requests + 1
    /\ UNCHANGED <<shared, tasks, hist>>
    /\ ClientStep(c)

\* submit_grid reads the player and validates the grid
sub_player(c) ==
    /\ At(c, "sub_player")
    /\ client' = [client EXCEPT ![c] =
            IF client[c].alien_id \notin PlayerKeys(client[c].lobby_id)
            THEN Done(Result("Player not in this lobby"))
            ELSE IF GridError(client[c].grid) # ""
            THEN Done(Result(GridError(client[c].grid)))
            ELSE [@ EXCEPT !.pc = "sub_hset"]]
    /\ UNCHANGED <<shared, tasks, requests, hist>>
    /\ ClientStep(c)

\* submit_grid stores numbers and grid and marks the player ready
sub_hset(c) ==
    /\ At(c, "sub_hset")
    /\ HsetGrid(client[c].lobby_id, client[c].alien_id, client[c].grid)
    /\ client' = [client EXCEPT ![c].pc = "sub_keys", ![c].grid = <<>>]
    /\ UNCHANGED <<pointer, lobby, numbers_called, starting, tasks, requests, hist>>
    /\ ClientStep(c)

\* submit_grid counts the players
sub_keys(c) ==
    /\ At(c, "sub_keys")
    /\ client' = [client EXCEPT ![c].pc =
            IF Cardinality(PlayerKeys(client[c].lobby_id)) >= MIN_PLAYERS
            THEN "ready_keys" ELSE "sub_count"]
    /\ UNCHANGED <<shared, tasks, requests, hist>>
    /\ ClientStep(c)

\* check_all_players_ready lists the player keys
check_all_players_ready(c) ==
    /\ At(c, "ready_keys")
    /\ LET player_keys == PlayerKeys(client[c].lobby_id) IN
        client' = [client EXCEPT ![c].todo = player_keys,
            ![c].pc = IF player_keys = {} THEN "start_lock" ELSE "ready_get"]
    /\ UNCHANGED <<shared, tasks, requests, hist>>
    /\ ClientStep(c)

\* check_all_players_ready reads one player
ready_get(c) ==
    /\ At(c, "ready_get")
    /\ LET player == players[client[c].lobby_id][Cur(client[c].todo)] IN
        client' = [client EXCEPT ![c] =
            IF player.active = "true" /\ player.ready # "true"
            THEN [@ EXCEPT !.todo = {}, !.pc = "sub_count"]
            ELSE [@ EXCEPT !.todo = Rest(@),
                           !.pc = IF Rest(client[c].todo) = {} THEN "start_lock"
                                  ELSE "ready_get"]]
    /\ UNCHANGED <<shared, tasks, requests, hist>>
    /\ ClientStep(c)

\* start_game, called by submit_grid, asks for the starting token
start_game(c) ==
    /\ At(c, "start_lock")
    /\ IF LockAcquired(client[c].lobby_id)
       THEN /\ starting' = [starting EXCEPT ![client[c].lobby_id] = TRUE]
            /\ client' = [client EXCEPT ![c].pc = "start_status"]
       ELSE /\ client' = [client EXCEPT ![c].pc = "sub_count"]
            /\ UNCHANGED starting
    /\ UNCHANGED <<pointer, lobby, players, numbers_called, tasks, requests, hist>>
    /\ ClientStep(c)

\* start_game reads the status
start_status(c) ==
    /\ At(c, "start_status")
    /\ client' = [client EXCEPT ![c].pc =
            IF lobby[client[c].lobby_id].status # "forming" THEN "sub_count"
            ELSE "start_hset"]
    /\ UNCHANGED <<shared, tasks, requests, hist>>
    /\ ClientStep(c)

\* start_game makes the lobby active
start_hset(c) ==
    /\ At(c, "start_hset")
    /\ StartHset(client[c].lobby_id)
    /\ client' = [client EXCEPT ![c].pc = "sub_count"]
    /\ UNCHANGED <<pointer, players, numbers_called, starting, timer, requests>>
    /\ ClientStep(c)

\* submit_grid counts the ready players and returns; the reads of
\* _count_ready_players are taken together, their result is only returned
sub_count(c) ==
    /\ At(c, "sub_count")
    /\ client' = [client EXCEPT ![c] =
            Done([Result("success") EXCEPT
                    !.ready_count = _count_ready_players(client[c].lobby_id)])]
    /\ UNCHANGED <<shared, tasks, requests, hist>>
    /\ ClientStep(c)

Submit(c) ==
    \/ submit_grid(c)
    \/ sub_player(c)
    \/ sub_hset(c)
    \/ sub_keys(c)
    \/ check_all_players_ready(c)
    \/ ready_get(c)
    \/ start_game(c)
    \/ start_status(c)
    \/ start_hset(c)
    \/ sub_count(c)

\* ---- the claim request: verify_claim ----

\* the cells of the eight lines, in the order check_win_patterns tries them
LineNames ==
    <<"row_0", "row_1", "row_2", "col_0", "col_1", "col_2", "diagonal_main",
      "diagonal_anti">>
LineCells ==
    << <<<<1,1>>, <<1,2>>, <<1,3>>>>, <<<<2,1>>, <<2,2>>, <<2,3>>>>,
       <<<<3,1>>, <<3,2>>, <<3,3>>>>, <<<<1,1>>, <<2,1>>, <<3,1>>>>,
       <<<<1,2>>, <<2,2>>, <<3,2>>>>, <<<<1,3>>, <<2,3>>, <<3,3>>>>,
       <<<<1,1>>, <<2,2>>, <<3,3>>>>, <<<<1,3>>, <<2,2>>, <<3,1>>>> >>

LineIn(grid, k, numbers) ==
    \A i \in 1..3 : grid[LineCells[k][i][1]][LineCells[k][i][2]] \in numbers

\* check_win_patterns: the first line whose cells are all in numbers, "None"
\* when there is none; grid[0] of a stored grid [] raises IndexError
check_win_patterns(grid, numbers) ==
    IF ~GridIs3x3(grid) THEN "IndexError"
    ELSE IF \E k \in 1..8 : LineIn(grid, k, numbers)
    THEN LineNames[Min({k \in 1..8 : LineIn(grid, k, numbers)})]
    ELSE "None"

\* verify_claim is called and reads the lobby
verify_claim(c) ==
    /\ CanStart(c)
    /\ \E l \in LobbyIds, a \in Aliens, hl \in Highlights :
        client' = [client EXCEPT ![c] =
            IF ~Exists(l) THEN Done(Result("Lobby not found"))
            ELSE IF lobby[l].status # "active" THEN Done(Result("Game is not active"))
            ELSE [IdleClient EXCEPT !.op = "claim", !.lobby_id = l, !.alien_id = a,
                                    !.hl = hl, !.lobby = lobby[l], !.pc = "claim_player"]]
    /\ requests' = requests + 1
    /\ UNCHANGED <<shared, tasks, hist>>
    /\ ClientStep(c)

\* verify_claim reads the player
claim_player(c) ==
    /\ At(c, "claim_player")
    /\ LET l == client[c].lobby_id
           a == client[c].alien_id
       IN client' = [client EXCEPT ![c] =
            IF a \notin PlayerKeys(l) THEN Done(Result("Player not in this lobby"))
            ELSE IF players[l][a].active # "true"
            THEN Done(Result("Player is no longer active in this game"))
            ELSE [@ EXCEPT !.grid = players[l][a].grid, !.pc = "claim_lrange"]]
    /\ UNCHANGED <<shared, tasks, requests, hist>>
    /\ ClientStep(c)

\* verify_claim reads the call history and decides
claim_lrange(c) ==
    /\ At(c, "claim_lrange")
    /\ LET numbers == SeqToSet(numbers_called[client[c].lobby_id])
           highlighted_set == SeqToSet(client[c].hl)
           pattern == check_win_patterns(client[c].grid, highlighted_set)
           all_called == highlighted_set \subseteq numbers
       IN client' = [client EXCEPT ![c] =
            IF pattern = "IndexError" THEN Done(Result("IndexError"))
            ELSE [@ EXCEPT !.called = numbers,
                    !.pc = IF pattern # "None" /\ all_called THEN "claim_finish"
                           ELSE "claim_kick"]]
    /\ UNCHANGED <<shared, tasks, requests, hist>>
    /\ ClientStep(c)

\* a valid claim: finish_game writes the winner
claim_finish(c) ==
    /\ At(c, "claim_finish")
    /\ FinishHset(client[c].lobby_id, client[c].alien_id)
    /\ client' = [client EXCEPT ![c].pc = "claim_delete"]
    /\ UNCHANGED <<pointer, players, numbers_called, starting, tasks, requests, hist>>
    /\ ClientStep(c)

\* a valid claim: finish_game deletes the pointer and verify_claim returns
claim_delete(c) ==
    /\ At(c, "claim_delete")
    /\ FinishDelete
    /\ client' = [client EXCEPT ![c] =
            Done([Result("valid") EXCEPT !.pot = client[c].lobby.pot,
                    !.pattern = check_win_patterns(client[c].grid, SeqToSet(client[c].hl))])]
    /\ UNCHANGED <<lobby, players, numbers_called, starting, tasks, requests, hist>>
    /\ ClientStep(c)

\* an invalid claim: the player is marked inactive
claim_kick(c) ==
    /\ At(c, "claim_kick")
    /\ players' = [players EXCEPT ![client[c].lobby_id][client[c].alien_id].active = "false"]
    /\ client' = [client EXCEPT ![c].pc = "kicked_keys", ![c].grid = <<>>, ![c].hl = <<>>,
                                ![c].called = {}, ![c].lobby = NoLobbyHash]
    /\ UNCHANGED <<pointer, lobby, numbers_called, starting, tasks, requests, hist>>
    /\ ClientStep(c)

\* a check_all_players_kicked that takes every player for active
PlayerActive_always(player) == TRUE

\* player.get("active") == "true" in check_all_players_kicked
PlayerActive(player) == player.active = "true"

\* check_all_players_kicked lists the player keys
check_all_players_kicked(c) ==
    /\ At(c, "kicked_keys")
    /\ client' = [client EXCEPT ![c].todo = PlayerKeys(client[c].lobby_id),
                                ![c].pc = "kicked_get"]
    /\ UNCHANGED <<shared, tasks, requests, hist>>
    /\ ClientStep(c)

\* check_all_players_kicked reads one player
kicked_get(c) ==
    /\ At(c, "kicked_get")
    /\ LET player == players[client[c].lobby_id][Cur(client[c].todo)] IN
        client' = [client EXCEPT ![c] =
            IF PlayerActive(player) THEN Done(Result("kicked"))
            ELSE [@ EXCEPT !.todo = Rest(@),
                           !.pc = IF Rest(client[c].todo) = {} THEN "kick_finish"
                                  ELSE "kicked_get"]]
    /\ UNCHANGED <<shared, tasks, requests, hist>>
    /\ ClientStep(c)

\* every player is kicked: finish_game writes no winner
kick_finish(c) ==
    /\ At(c, "kick_finish")
    /\ FinishHset(client[c].lobby_id, 0)
    /\ client' = [client EXCEPT ![c].pc = "kick_delete"]
    /\ UNCHANGED <<pointer, players, numbers_called, starting, tasks, requests, hist>>
    /\ ClientStep(c)

\* every player is kicked: finish_game deletes the pointer
kick_delete(c) ==
    /\ At(c, "kick_delete")
    /\ FinishDelete
    /\ client' = [client EXCEPT ![c] = Done(Result("kicked"))]
    /\ UNCHANGED <<lobby, players, numbers_called, starting, tasks, requests, hist>>
    /\ ClientStep(c)

Claim(c) ==
    \/ verify_claim(c)
    \/ claim_player(c)
    \/ claim_lrange(c)
    \/ claim_finish(c)
    \/ claim_delete(c)
    \/ claim_kick(c)
    \/ check_all_players_kicked(c)
    \/ kicked_get(c)
    \/ kick_finish(c)
    \/ kick_delete(c)

\* ---- the payment webhook: main.payment_webhook ----

\* a finalized invoice of an existing lobby is credited; the invoice hash is
\* read and written by nothing else and is not kept
payment_webhook ==
    /\ Arrivals
    /\ \E l \in DOMAIN lobby, amount \in InvoiceAmounts :
        /\ lobby' = [lobby EXCEPT ![l].pot = hincrby(@, amount)]
        /\ hist' = [hist EXCEPT ![l].credited = @ + amount]
    /\ requests' = requests + 1
    /\ UNCHANGED <<pointer, players, numbers_called, starting, client, tasks>>
    /\ WebhookStep

\* ---- the background task forming_timer ----

TimerAt(l, k, pc) == timer[l][k].pc = pc

\* whether forming_timer starts the game after its second loop
EnoughPlayers(n_active) == n_active >= MIN_PLAYERS

\* the timer leaves its first loop for the second, or the second for the end
AfterFill(t) ==
    IF Rest(t.todo) # {} THEN [t EXCEPT !.todo = Rest(@), !.pc = "fill_get"]
    ELSE [t EXCEPT !.todo = t.keys, !.pc = "count_get"]

\* forming_timer wakes up and reads the lobby
forming_timer(l, k) ==
    /\ TimerAt(l, k, "sleep")
    /\ timer' = [timer EXCEPT ![l][k] =
            IF ~Exists(l) \/ lobby[l].status # "forming" THEN TimerExit
            ELSE [@ EXCEPT !.pc = "fill_keys"]]
    /\ UNCHANGED <<shared, client, calltask, requests, hist>>
    /\ TimerStep(l, k)

\* forming_timer lists the player keys
timer_keys(l, k) ==
    /\ TimerAt(l, k, "fill_keys")
    /\ LET player_keys == PlayerKeys(l) IN
        timer' = [timer EXCEPT ![l][k] =
            IF player_keys = {} THEN [@ EXCEPT !.pc = "finish_hset"]
            ELSE [@ EXCEPT !.keys = player_keys, !.todo = player_keys, !.pc = "fill_get"]]
    /\ UNCHANGED <<shared, client, calltask, requests, hist>>
    /\ TimerStep(l, k)

\* first loop: forming_timer reads one player
timer_fill_get(l, k) ==
    /\ TimerAt(l, k, "fill_get")
    /\ LET player == players[l][Cur(timer[l][k].todo)] IN
        timer' = [timer EXCEPT ![l][k] =
            IF player.active = "true" /\ player.ready # "true"
            THEN [@ EXCEPT !.pc = "fill_hset"]
            ELSE AfterFill(@)]
    /\ UNCHANGED <<shared, client, calltask, requests, hist>>
    /\ TimerStep(l, k)

\* first loop: forming_timer stores a random grid for the player it read
timer_fill_hset(l, k) ==
    /\ TimerAt(l, k, "fill_hset")
    /\ \E grid \in _generate_random_grid : HsetGrid(l, Cur(timer[l][k].todo), grid)
    /\ timer' = [timer EXCEPT ![l][k] = AfterFill(@)]
    /\ UNCHANGED <<pointer, lobby, numbers_called, starting, client, calltask, requests, hist>>
    /\ TimerStep(l, k)

\* second loop: forming_timer reads one player and counts the active ones
timer_count_get(l, k) ==
    /\ TimerAt(l, k, "count_get")
    /\ LET t == timer[l][k]
           n == t.n_active + (IF players[l][Cur(t.todo)].active = "true" THEN 1 ELSE 0)
       IN timer' = [timer EXCEPT ![l][k] =
            IF Rest(t.todo) # {} THEN [@ EXCEPT !.todo = Rest(@), !.n_active = n]
            ELSE [NoTimer EXCEPT !.pc = IF EnoughPlayers(n) THEN "start_lock"
                                       ELSE "finish_hset"]]
    /\ UNCHANGED <<shared, client, calltask, requests, hist>>
    /\ TimerStep(l, k)

\* start_game, called by forming_timer, asks for the starting token
timer_start_game(l, k) ==
    /\ TimerAt(l, k, "start_lock")
    /\ IF LockAcquired(l)
       THEN /\ starting' = [starting EXCEPT ![l] = TRUE]
            /\ timer' = [timer EXCEPT ![l][k].pc = "start_status"]
       ELSE /\ timer' = [timer EXCEPT ![l][k] = TimerExit]
            /\ UNCHANGED starting
    /\ UNCHANGED <<pointer, lobby, players, numbers_called, client, calltask, requests, hist>>
    /\ TimerStep(l, k)

\* start_game reads the status
timer_start_status(l, k) ==
    /\ TimerAt(l, k, "start_status")
    /\ timer' = [timer EXCEPT ![l][k] =
            IF lobby[l].status # "forming" THEN TimerExit
            ELSE [@ EXCEPT !.pc = "start_hset"]]
    /\ UNCHANGED <<shared, client, calltask, requests, hist>>
    /\ TimerStep(l, k)

\* start_game makes the lobby active
timer_start_hset(l, k) ==
    /\ TimerAt(l, k, "start_hset")
    /\ StartHset(l)
    /\ timer' = [timer EXCEPT ![l][k] = TimerExit]
    /\ UNCHANGED <<pointer, players, numbers_called, starting, client, requests>>
    /\ TimerStep(l, k)

\* too few players: finish_game writes no winner
timer_finish(l, k) ==
    /\ TimerAt(l, k, "finish_hset")
    /\ FinishHset(l, 0)
    /\ timer' = [timer EXCEPT ![l][k].pc = "finish_delete"]
    /\ UNCHANGED <<pointer, players, numbers_called, starting, client, calltask, requests, hist>>
    /\ TimerStep(l, k)

\* too few players: finish_game deletes the pointer
timer_finish_delete(l, k) ==
    /\ TimerAt(l, k, "finish_delete")
    /\ FinishDelete
    /\ timer' = [timer EXCEPT ![l][k] = TimerExit]
    /\ UNCHANGED <<lobby, players, numbers_called, starting, client, calltask, requests, hist>>
    /\ TimerStep(l, k)

Timer(l, k) ==
    \/ forming_timer(l, k)
    \/ timer_keys(l, k)
    \/ timer_fill_get(l, k)
    \/ timer_fill_hset(l, k)
    \/ timer_count_get(l, k)
    \/ timer_start_game(l, k)
    \/ timer_start_status(l, k)
    \/ timer_start_hset(l, k)
    \/ timer_finish(l, k)
    \/ timer_finish_delete(l, k)

\* ---- the background task call_numbers_task ----

TaskExit == [NoTask EXCEPT !.pc = "done"]

\* a draw that never writes previous_number
DrawUpdate_no_shift(hash, number, current_latest) ==
    [hash EXCEPT !.latest_number = number]

\* the fields one draw writes to the lobby hash
DrawUpdate(hash, number, current_latest) ==
    [hash EXCEPT !.latest_number = number,
                 !.previous_number = IF current_latest # 0 THEN current_latest ELSE @]

\* call_numbers_task reads the lobby before a draw
call_numbers_task(l) ==
    /\ calltask[l].pc = "get"
    /\ calltask' = [calltask EXCEPT ![l] =
            IF ~Exists(l) \/ lobby[l].status # "active" THEN TaskExit
            ELSE [@ EXCEPT !.current_latest = lobby[l].latest_number, !.pc = "rpush"]]
    /\ UNCHANGED <<shared, client, timer, requests, hist>>
    /\ TaskStep(l)

\* call_numbers_task appends the number to the call history
call_rpush(l) ==
    /\ calltask[l].pc = "rpush"
    /\ numbers_called' = [numbers_called EXCEPT ![l] =
            Append(@, calltask[l].pool[calltask[l].idx])]
    /\ calltask' = [calltask EXCEPT ![l].pc = "hset"]
    /\ UNCHANGED <<pointer, lobby, players, starting, client, timer, requests, hist>>
    /\ TaskStep(l)

\* call_numbers_task writes latest_number and previous_number, then sleeps
call_hset(l) ==
    /\ calltask[l].pc = "hset"
    /\ LET t == calltask[l] IN
        /\ lobby' = [lobby EXCEPT ![l] = DrawUpdate(@, t.pool[t.idx], t.current_latest)]
        /\ calltask' = [calltask EXCEPT ![l] =
            IF t.idx = MAX_NUMBER THEN [NoTask EXCEPT !.pc = "finish_hset"]
            ELSE [@ EXCEPT !.idx = @ + 1, !.current_latest = 0, !.pc = "get"]]
    /\ UNCHANGED <<pointer, players, numbers_called, starting, client, timer, requests, hist>>
    /\ TaskStep(l)

\* the pool is exhausted: finish_game writes no winner
call_finish(l) ==
    /\ calltask[l].pc = "finish_hset"
    /\ FinishHset(l, 0)
    /\ calltask' = [calltask EXCEPT ![l].pc = "finish_delete"]
    /\ UNCHANGED <<pointer, players, numbers_called, starting, client, timer, requests, hist>>
    /\ TaskStep(l)

\* the pool is exhausted: finish_game deletes the pointer
call_finish_delete(l) ==
    /\ calltask[l].pc = "finish_delete"
    /\ FinishDelete
    /\ calltask' = [calltask EXCEPT ![l] = TaskExit]
    /\ UNCHANGED <<lobby, players, numbers_called, starting, client, timer, requests, hist>>
    /\ TaskStep(l)

CallNumbers(l) ==
    \/ call_numbers_task(l)
    \/ call_rpush(l)
    \/ call_hset(l)
    \/ call_finish(l)
    \/ call_finish_delete(l)

Next ==
    \/ \E c \in Clients : Join(c) \/ Submit(c) \/ Claim(c)
    \/ payment_webhook
    \/ \E l \in LobbyIds, k \in Clients : Timer(l, k)
    \/ \E l \in LobbyIds : CallNumbers(l)

Spec == Init /\ [][Next]_vars

\* ---- a lobby one join away from full: InitJoined with MAX_PLAYERS - 1 ----

\* the join requests on a forming lobby that has its deadline, before its
\* forming timer wakes up
NextFull ==
    \E c \in Clients :
        \/ join_lobby(c)
        \/ get_or_create_global_lobby(c)
        \/ add_player_to_lobby(c)
        \/ add_exists(c)
        \/ add_rejoin(c)
        \/ add_keys(c)
        \/ add_hset(c)
        \/ add_hincrby(c)

InitFull == InitJoined(MAX_PLAYERS - 1)

SpecFull == InitFull /\ [][NextFull]_vars

\* ---- a lobby with two forming timers: the background tasks alone ----

\* Two overlapping first joins of alien 1 have both written the record,
\* credited the buy-in and started a forming timer.  The timer of client 1
\* has woken up, stored a random grid for player 1, counted one active player
\* and is about to call finish_game.  Alien 2 has joined since; the timer of
\* client 2 still sleeps.
InitTwoTimers ==
    /\ pointer = 1
    /\ lobby = [l \in {1} |->
            [NewLobbyHash EXCEPT !.pot = 3 * BUY_IN_AMOUNT, !.forming_deadline = "t"]]
    /\ players = [l \in LobbyIds |->
            IF l = 1
            THEN [a \in {1, 2} |->
                    IF a = 2 THEN NewPlayerHash
                    ELSE [numbers |-> Flatten(GridFrom(1)), grid |-> GridFrom(1),
                          ready |-> "true", active |-> "true"]]
            ELSE [a \in {} |-> NewPlayerHash]]
    /\ numbers_called = [l \in LobbyIds |-> <<>>]
    /\ starting = [l \in LobbyIds |-> FALSE]
    /\ client = [c \in Clients |-> IdleClient]
    /\ timer = [l \in LobbyIds |-> [c \in Clients |->
            IF l = 1 /\ c = 1 THEN [NoTimer EXCEPT !.pc = "finish_hset"]
            ELSE IF l = 1 /\ c = 2 THEN [NoTimer EXCEPT !.pc = "sleep"]
            ELSE NoTimer]]
    /\ calltask = [l \in LobbyIds |-> NoTask]
    /\ requests = 0
    /\ hist = [l \in LobbyIds |->
            IF l = 1
            THEN [NoHist EXCEPT !.timers = 2, !.deadline_writes = 2,
                                !.new_joins = [a \in {1, 2} |-> IF a = 1 THEN 2 ELSE 1]]
            ELSE NoHist]
    /\ sched = [current |-> <<>>, preemptions |-> 0]

\* the forming timers and call_numbers_task, with no request arriving
NextTimers ==
    \/ \E l \in LobbyIds, k \in Clients : Timer(l, k)
    \/ \E l \in LobbyIds : CallNumbers(l)

SpecTimers == InitTwoTimers /\ [][NextTimers]_vars

\* ---- joined lobbies left to themselves: no further request arrives ----

\* The players of Aliens have joined lobby 1 and alien 1 has submitted its
\* grid; client 1 is in submit_grid for alien 2 and has just stored the grid,
\* which makes every player ready.  The forming timer still sleeps.
InitSubmitting ==
    /\ pointer = 1
    /\ lobby = [l \in {1} |->
            [NewLobbyHash EXCEPT !.pot = NumAliens * BUY_IN_AMOUNT,
                                 !.forming_deadline = "t"]]
    /\ players = [l \in LobbyIds |->
            IF l = 1
            THEN [a \in Aliens |->
                    [numbers |-> Flatten(GridFrom(1)), grid |-> GridFrom(1),
                     ready |-> "true", active |-> "true"]]
            ELSE [a \in {} |-> NewPlayerHash]]
    /\ numbers_called = [l \in LobbyIds |-> <<>>]
    /\ starting = [l \in LobbyIds |-> FALSE]
    /\ client = [c \in Clients |->
            IF c = 1
            THEN [IdleClient EXCEPT !.op = "submit", !.lobby_id = 1,
                                    !.alien_id = NumAliens, !.pc = "sub_keys"]
            ELSE IdleClient]
    /\ timer = [l \in LobbyIds |-> [c \in Clients |->
            IF l = 1 /\ c = 1 THEN [NoTimer EXCEPT !.pc = "sleep"] ELSE NoTimer]]
    /\ calltask = [l \in LobbyIds |-> NoTask]
    /\ requests = 1
    /\ hist = [l \in LobbyIds |->
            IF l = 1
            THEN [NoHist EXCEPT !.timers = 1, !.deadline_writes = 1,
                                !.new_joins = [a \in Aliens |-> 1]]
            ELSE NoHist]
    /\ sched = [current |-> <<"client", 1>>, preemptions |-> 0]

\* a lobby that players have joined, forming or active, with its tasks
InitLive ==
    \/ \E n \in 1..NumJoined : InitJoined(n)
    \/ InitActive
    \/ InitTwoTimers
    \/ InitSubmitting

\* what is left of a submit_grid that has stored the grid
SubmitRest(c) ==
    \/ sub_keys(c)
    \/ check_all_players_ready(c)
    \/ ready_get(c)
    \/ start_game(c)
    \/ start_status(c)
    \/ start_hset(c)
    \/ sub_count(c)

\* the handler in flight and the background tasks, with no request arriving
NextLive ==
    \/ \E c \in Clients : SubmitRest(c)
    \/ \E l \in LobbyIds, k \in Clients : Timer(l, k)
    \/ \E l \in LobbyIds : CallNumbers(l)

\* the event loop runs every coroutine that is ready: a handler resumes after
\* each redis reply, asyncio.sleep returns, and a started task gets to run
Fairness ==
    /\ \A c \in Clients : WF_vars(SubmitRest(c))
    /\ \A l \in LobbyIds, k \in Clients : WF_vars(Timer(l, k))
    /\ \A l \in LobbyIds : WF_vars(CallNumbers(l))

SpecLive == InitLive /\ [][NextLive]_vars /\ Fairness

\* ---- properties ----

Rank(status) == IF status = "forming" THEN 0 ELSE IF status = "active" THEN 1 ELSE 2

RECURSIVE SumOver(_, _)
SumOver(f, S) ==
    IF S = {} THEN 0 ELSE LET x == CHOOSE x \in S : TRUE IN f[x] + SumOver(f, S \ {x})

\* player records written by add_player_to_lobby in lobby l, and those of them
\* whose buy-in is not credited yet
JoinsWritten(l) == SumOver(hist[l].new_joins, DOMAIN hist[l].new_joins)
JoinsPending(l) ==
    Cardinality({c \in Clients : At(c, "add_hincrby") /\ client[c].lobby_id = l})
EachJoinedOnce(l) == \A a \in DOMAIN hist[l].new_joins : hist[l].new_joins[a] <= 1

\* C1: whatever the forming timer and the submit_grid calls do, and however
\* they interleave, a lobby is made active at most once and at most one
\* call_numbers_task is created for it.
C1_StartOnce ==
    \A l \in LobbyIds : hist[l].started_writes <= 1 /\ hist[l].tasks <= 1

\* C1: a game has been started while both the forming timer and a submit_grid
\* call are in start_game for the same lobby
C1_Witness ==
    \E l \in LobbyIds, c \in Clients, k \in Clients :
        /\ hist[l].started_writes = 1
        /\ lobby[l].status = "active"
        /\ client[c].lobby_id = l
        /\ \/ At(c, "start_lock") /\ timer[l][k] = TimerExit
           \/ At(c, "sub_count") /\ TimerAt(l, k, "start_lock")

\* the claim of client c wins: the highlighted numbers cover one of the eight
\* lines of the grid read and all of them are among the numbers read as called
HighlightWins(c) ==
    LET g == client[c].grid
        h == SeqToSet(client[c].hl)
    IN  /\ h \subseteq client[c].called
        /\ \/ \E i \in 1..3 : {g[i][1], g[i][2], g[i][3]} \subseteq h
           \/ \E j \in 1..3 : {g[1][j], g[2][j], g[3][j]} \subseteq h
           \/ {g[1][1], g[2][2], g[3][3]} \subseteq h
           \/ {g[1][3], g[2][2], g[3][1]} \subseteq h

\* C2: a claim by an active player of an active lobby is judged valid exactly
\* when the highlighted numbers form a line of the player's grid and are all
\* called, and in every other case the claimant is kicked: the claim ends in
\* one of the two, never in anything else.
C2_ClaimOutcome ==
    \A c \in Clients :
        /\ client[c].res.res # "IndexError"
        /\ At(c, "claim_finish") => HighlightWins(c)
        /\ At(c, "claim_kick") => ~HighlightWins(c)

\* C3: the status of a lobby only moves forward, forming to active to
\* finished: no step takes it back.
C3_StatusMonotonic ==
    [][\A l \in DOMAIN lobby : Rank(lobby'[l].status) >= Rank(lobby[l].status)]_vars

\* C4: once a lobby has a winner, no later finish_game, concurrent claim or
\* end of the number calls changes or clears it.
C4_WinnerKept ==
    [][\A l \in DOMAIN lobby : lobby[l].winner # 0 => lobby'[l].winner = lobby[l].winner]_vars

\* C5: the pot of a lobby is BUY_IN_AMOUNT for every player record written and
\* credited plus the amounts the webhook credited, so with every join complete
\* and distinct players it is BUY_IN_AMOUNT times the number of players plus
\* the webhook credits; and it never decreases.
C5_PotAccounting ==
    /\ [](\A l \in DOMAIN lobby :
            /\ lobby[l].pot =
                BUY_IN_AMOUNT * (JoinsWritten(l) - JoinsPending(l)) + hist[l].credited
            /\ (EachJoinedOnce(l) /\ JoinsPending(l) = 0) =>
                lobby[l].pot =
                    BUY_IN_AMOUNT * Cardinality(PlayerKeys(l)) + hist[l].credited)
    /\ [][\A l \in DOMAIN lobby : lobby'[l].pot >= lobby[l].pot]_vars

\* C5: a new player's join and a webhook credit have both completed on a
\* forming lobby that had players, the credit arriving during the join
C5_Witness ==
    \E l \in DOMAIN lobby :
        /\ lobby[l].status = "forming"
        /\ hist[l].credited > 0
        /\ PlayerKeys(l) \cap Aliens # {}
        /\ PlayerKeys(l) \ Aliens # {}
        /\ EachJoinedOnce(l) /\ JoinsPending(l) = 0
        /\ sched.preemptions > 0
        /\ \A c \in Clients : client[c].pc \in {"idle", "done"}
        /\ \A k \in Clients : TimerAt(l, k, "sleep") \/ TimerAt(l, k, "none")
        /\ lobby[l].pot > BUY_IN_AMOUNT * Cardinality(PlayerKeys(l))

\* C6: a join for a player that has a record in the lobby, a retried join
\* overlapping the first included, credits no second buy-in and writes no
\* second record: a lobby never holds more buy-ins than it has players.
C6_JoinIdempotent ==
    \A l \in DOMAIN lobby :
        /\ EachJoinedOnce(l)
        /\ lobby[l].pot <= BUY_IN_AMOUNT * Cardinality(PlayerKeys(l)) + hist[l].credited

\* C7: a lobby never has more than MAX_PLAYERS player records.
C7_Capacity ==
    \A l \in LobbyIds : Cardinality(PlayerKeys(l)) <= MAX_PLAYERS

\* C8: when callers of get_or_create_global_lobby see no current lobby at the
\* same time, one lobby is created and all of them are returned it: no two
\* callers are about to return lobbies of their own.
C8_OneNewLobby ==
    \A c1, c2 \in Clients :
        (At(c1, "create_set") /\ At(c2, "create_set")) =>
            client[c1].lobby_id = client[c2].lobby_id

\* C9: the pointer is cleared only when the lobby it names is finished:
\* finishing a lobby never removes a pointer that names another lobby.
C9_PointerCleared ==
    [][(pointer # 0 /\ pointer' = 0) => lobby[pointer].status = "finished"]_vars

\* a grid of 3 rows of 3 numbers, all different and between 1 and MAX_NUMBER
WellFormed(grid) ==
    /\ Len(grid) = 3
    /\ \A i \in 1..3 : Len(grid[i]) = 3
    /\ \A i, j, m, n \in 1..3 : (<<i, j>> # <<m, n>>) => grid[i][j] # grid[m][n]
    /\ \A i, j \in 1..3 : grid[i][j] \in 1..MAX_NUMBER

ValidationErrors ==
    {"Grid must be 3x3", "Grid must contain 9 unique numbers",
     "Numbers must be between 1 and 20"}

\* C10: every stored grid is 3 rows of 3 pairwise distinct numbers between 1
\* and MAX_NUMBER, with numbers its row-major flattening; and a submit_grid
\* with any other grid fails, with a validation error when the lobby is
\* forming and the player is in it, and changes nothing in the store.
C10_GridValidation ==
    /\ [](\A l \in LobbyIds : \A a \in PlayerKeys(l) :
            \/ players[l][a].grid = <<>> /\ players[l][a].numbers = <<>>
            \/ /\ WellFormed(players[l][a].grid)
               /\ players[l][a].numbers = Flatten(players[l][a].grid)
               /\ players[l][a].ready = "true")
    /\ [][\A c \in Clients :
            (At(c, "sub_player") /\ ~WellFormed(client[c].grid) /\ client'[c] # client[c]) =>
                /\ client'[c].pc = "done"
                /\ client'[c].res.res \in ValidationErrors \cup {"Player not in this lobby"}
                /\ client[c].alien_id \in PlayerKeys(client[c].lobby_id) =>
                        client'[c].res.res \in ValidationErrors
                /\ UNCHANGED shared]_vars

\* C10: a submit_grid has failed with a validation error in a lobby where
\* another player's grid is stored
C10_Witness ==
    \E c \in Clients, l \in DOMAIN lobby :
        /\ At(c, "done")
        /\ client[c].res.res \in ValidationErrors
        /\ \E a \in PlayerKeys(l) : players[l][a].grid # <<>>
        /\ \E a \in PlayerKeys(l) \cap Aliens : players[l][a].grid = <<>>

\* C11: once a player is ready, no step changes the player's grid or numbers
\* or takes ready back: not a second submit_grid, not the forming timer's
\* fill racing with a submission.
C11_GridImmutable ==
    [][\A l \in LobbyIds : \A a \in PlayerKeys(l) :
        players[l][a].ready = "true" =>
            /\ players'[l][a].grid = players[l][a].grid
            /\ players'[l][a].numbers = players[l][a].numbers
            /\ players'[l][a].ready = "true"]_vars

\* the positions of verify_claim after an invalid claim has kicked its player
KickPath == {"kicked_keys", "kicked_get", "kick_finish"}

\* every player of lobby l is marked inactive
AllKicked(l) ==
    PlayerKeys(l) # {} /\ \A a \in PlayerKeys(l) : players[l][a].active = "false"

\* C12: an active lobby whose players are all marked inactive is being
\* finished by a claim that kicked one of them: that claim is still checking
\* the players or about to write the finish; and the finish it writes has no
\* winner.
C12_AllKickedFinishes ==
    /\ [](\A l \in DOMAIN lobby :
            (lobby[l].status = "active" /\ AllKicked(l)) =>
                \E c \in Clients : client[c].lobby_id = l /\ client[c].pc \in KickPath)
    /\ [][\A c \in Clients :
            (At(c, "kick_finish") /\ client'[c] # client[c]) =>
                /\ lobby'[client[c].lobby_id].status = "finished"
                /\ lobby'[client[c].lobby_id].winner = 0]_vars

\* C12: two invalid claims that overlapped have kicked every player of a
\* lobby, which is finished with no winner
C12_Witness ==
    \E l \in DOMAIN lobby :
        /\ AllKicked(l)
        /\ Cardinality(PlayerKeys(l)) >= 2
        /\ lobby[l].status = "finished" /\ lobby[l].winner = 0
        /\ sched.preemptions > 0
        /\ \E c \in Clients : At(c, "done") /\ client[c].res.res = "kicked"

ClaimErrors ==
    {"Lobby not found", "Game is not active", "Player not in this lobby",
     "Player is no longer active in this game"}

\* C14: a claim for a player without a record or already inactive is rejected
\* with an error and changes nothing; a player marked inactive is never the
\* winner and never becomes active again.
C14_ClaimRejected ==
    /\ [](\A l \in DOMAIN lobby :
            lobby[l].winner # 0 =>
                /\ lobby[l].winner \in PlayerKeys(l)
                /\ players[l][lobby[l].winner].active = "true")
    /\ [][\A l \in LobbyIds : \A a \in PlayerKeys(l) :
            players[l][a].active = "false" => players'[l][a].active = "false"]_vars
    /\ [][\A c \in Clients :
            (/\ At(c, "claim_player") /\ client'[c] # client[c]
             /\ \/ client[c].alien_id \notin PlayerKeys(client[c].lobby_id)
                \/ players[client[c].lobby_id][client[c].alien_id].active # "true") =>
                /\ client'[c].pc = "done"
                /\ client'[c].res.res \in ClaimErrors
                /\ UNCHANGED shared]_vars

\* C15: a player record is only ever added to a forming lobby, and a join
\* answered in_progress reports no players and no pot.
C15_JoinOnlyForming ==
    /\ [][\A l \in DOMAIN lobby : \A a \in PlayerKeys(l)' :
            a \notin PlayerKeys(l) => lobby[l].status = "forming"]_vars
    /\ [](\A c \in Clients :
            client[c].res.res = "in_progress" =>
                client[c].res.player_count = 0 /\ client[c].res.pot = 0)

\* C16: the call history of a lobby only grows at its end, has no number
\* twice, at most MAX_NUMBER entries, and only numbers from 1 to MAX_NUMBER.
C16_CallHistory ==
    /\ [](\A l \in LobbyIds :
            LET h == numbers_called[l] IN
            /\ Len(h) <= MAX_NUMBER
            /\ \A i \in 1..Len(h) : h[i] \in 1..MAX_NUMBER
            /\ \A i, j \in 1..Len(h) : i # j => h[i] # h[j])
    /\ [][\A l \in LobbyIds :
            /\ Len(numbers_called'[l]) >= Len(numbers_called[l])
            /\ SubSeq(numbers_called'[l], 1, Len(numbers_called[l])) = numbers_called[l]]_vars

\* C16: a lobby's call history holds all MAX_NUMBER numbers
C16_Witness ==
    \E l \in LobbyIds : Len(numbers_called[l]) = MAX_NUMBER

\* a step of a background process of lobby l, other than the pointer delete
\* that ends a finish_game the process has begun
TaskStepOf(l) ==
    \/ \E k \in Clients : timer'[l][k] # timer[l][k] /\ ~TimerAt(l, k, "finish_delete")
    \/ calltask'[l] # calltask[l] /\ client' = client /\ calltask[l].pc # "finish_delete"

\* C17: once a lobby is finished, no step of its forming timers or of its
\* call_numbers_task changes anything in the store.
C17_Cancellation ==
    [][\A l \in DOMAIN lobby :
        (lobby[l].status = "finished" /\ TaskStepOf(l)) => UNCHANGED shared]_vars

\* C18: a lobby gets at most one forming timer and its forming_deadline is
\* written at most once.
C18_OneTimer ==
    \A l \in LobbyIds : hist[l].timers <= 1 /\ hist[l].deadline_writes <= 1

\* C19: whenever call_numbers_task is between two draws, latest_number is the
\* last entry of the call history and previous_number the entry before it,
\* unset while there is none.
C19_LatestPrevious ==
    \A l \in DOMAIN lobby :
        LET h == numbers_called[l] IN
        calltask[l].pc \notin {"hset"} =>
            /\ lobby[l].latest_number = (IF Len(h) >= 1 THEN h[Len(h)] ELSE 0)
            /\ lobby[l].previous_number = (IF Len(h) >= 2 THEN h[Len(h) - 1] ELSE 0)

\* C19: three draws are complete
C19_Witness ==
    \E l \in DOMAIN lobby :
        /\ Len(numbers_called[l]) = 3
        /\ calltask[l].pc = "get"
        /\ lobby[l].previous_number = numbers_called[l][2]

\* C20: an active lobby has at least MIN_PLAYERS player records and each of
\* its active players is ready with a well-formed grid.
C20_ActiveLobbyReady ==
    \A l \in DOMAIN lobby :
        lobby[l].status = "active" =>
            /\ Cardinality(PlayerKeys(l)) >= MIN_PLAYERS
            /\ \A a \in PlayerKeys(l) :
                players[l][a].active = "true" =>
                    players[l][a].ready = "true" /\ WellFormed(players[l][a].grid)

\* the positions of a forming timer inside start_game
StartPath == {"start_lock", "start_status", "start_hset"}

\* C13: a forming timer that wakes up on a lobby that is not forming changes
\* nothing; one that has counted fewer than MIN_PLAYERS active players
\* finishes the lobby with no winner and clears the pointer; one that has
\* counted at least MIN_PLAYERS does not return from start_game before the
\* lobby has been made active, unless another caller of start_game holds the
\* starting token and is making it active.
C13_FormingTimer ==
    [][\A l \in DOMAIN lobby, k \in Clients :
        /\ (TimerAt(l, k, "sleep") /\ timer'[l][k] # timer[l][k]
                /\ lobby[l].status # "forming") =>
            (timer'[l][k] = TimerExit /\ UNCHANGED shared)
        /\ (TimerAt(l, k, "finish_hset") /\ timer'[l][k] # timer[l][k]) =>
            (lobby'[l].status = "finished" /\ lobby'[l].winner = 0)
        /\ (TimerAt(l, k, "finish_delete") /\ timer'[l][k] # timer[l][k]) =>
            pointer' = 0
        /\ (timer[l][k].pc \in StartPath /\ timer'[l][k] = TimerExit) =>
            \/ hist'[l].started_writes >= 1
            \/ /\ lobby'[l].status = "forming"
               /\ \/ \E c \in Clients :
                        /\ client[c].lobby_id = l
                        /\ client[c].pc \in {"start_status", "start_hset"}
                  \/ \E k2 \in Clients \ {k} :
                        timer[l][k2].pc \in {"start_status", "start_hset"}
       ]_vars

\* C21: under fair scheduling of the handlers in flight, the forming timers
\* and call_numbers_task, and with no further request, every lobby that has a
\* player record eventually has status finished.
C21_EventuallyFinished ==
    \A l \in LobbyIds :
        (Exists(l) /\ PlayerKeys(l) # {}) ~> (Exists(l) /\ lobby[l].status = "finished")

\* a lobby whose forming timer woke up while a submit_grid was in flight has
\* been made active once and is finished after its last draw
C21_Witness ==
    \E l \in DOMAIN lobby :
        /\ lobby[l].status = "finished"
        /\ Len(numbers_called[l]) = MAX_NUMBER
        /\ hist[l].started_writes = 1
        /\ timer[l][1] = TimerExit
        /\ client[1].pc = "done" /\ client[1].res.res = "success"
        /\ sched.preemptions > 0

====
